---- MODULE Spec2Model ----
(***************************************************************************)
(* l2pGUI: ingestion, classification and track-state engine of the ADS-B   *)
(* display client (src/l2pGUI/l2pGUI.py).                                  *)
(*                                                                         *)
(* A string of text (a line of the recording, a payload of the socket) is *)
(* modelled as the sequence of its lines, each line the sequence of its    *)
(* whitespace tokens, each token a string; Split is str.split().  float()  *)
(* is the partial function Float below: a token outside its domain makes   *)
(* float() raise ValueError.  Floating point values are integers; the two  *)
(* unit conversions are fixed-point (see Feet2Metres and Deg2Rad).         *)
(* Python indexes tokens from 0: Tok(l, i) is l[i] of the source.          *)
(***************************************************************************)
EXTENDS Integers, Sequences, FiniteSets, TLC

VARIABLES
    P,           \* L2pRadar.P / planes_dict: plane id -> Plane
    telLines,    \* L2pRadar.telLines: the last telescope line
    keys,        \* addPlanes' keys: the ids its last call deleted
    raised,      \* the last handler invocation ended by an uncaught exception
    minel,       \* addPlanes' minel argument of this run
    time_alive,  \* addPlanes' time_alive argument of this run
    queues,      \* every multiprocessing.Queue created so far
    workers,     \* every receive_proc process created so far
    planeQueue,  \* L2pRadar.planeQueue: index into queues (0: none)
    procWorker,  \* L2pRadar.procWorker: index into workers (0: none)
    data_lines,  \* dump_queue's data_lines while it drains
    sup,         \* where the application is: "get", "process", "closed", ...
    datafile,    \* replay: the recording, a sequence of lines
    pos,         \* replay: L2pRadar.pos, the offset of the next unread line
    N_lines,     \* replay: dataFakeRead's N_lines argument of this run
    i_read,      \* replay: dataFakeRead's i, the lines its last call read
    anim         \* the animation timer, "running" or "stopped"

vars == <<P, telLines, keys, raised, minel, time_alive, queues, workers,
          planeQueue, procWorker, data_lines, sup, datafile, pos, N_lines,
          i_read, anim>>

storeVars == <<P, keys, raised>>
liveVars == <<queues, workers, planeQueue, procWorker, data_lines>>
replayVars == <<datafile, pos, i_read, anim>>
argVars == <<minel, time_alive, N_lines>>

----------------------------------------------------------------------------
(* Bounds of the model *)

\* most samples a Plane may hold before a call that could add more is disabled
MaxSamples == 2

----------------------------------------------------------------------------
(* Tokens and float() *)

\* float(s) for the numeric tokens that occur; any other token raises
Float ==
    ("56395" :> 56395) @@ ("100" :> 100) @@ ("115" :> 115) @@ ("116" :> 116) @@
    ("600116" :> 600116) @@ ("50" :> 50) @@ ("-1" :> -1) @@ ("0" :> 0) @@
    ("7" :> 7) @@ ("20" :> 20) @@ ("29525" :> 29525) @@ ("68" :> 68) @@
    ("280" :> 280) @@ ("-474" :> -474) @@ ("191" :> 191) @@ ("1088" :> 1088) @@
    ("56692" :> 56692) @@ ("41847" :> 41847) @@ ("75" :> 75) @@ ("65" :> 65) @@
    ("1" :> 1) @@ ("86300" :> 86300)

IsFloat(s) == s \in DOMAIN Float

\* text.split(): the tokens of all the lines of the text, in order
\* f(x) with x worked out once, however often f's body names it
With(x, f(_)) == CHOOSE y \in {f(v) : v \in {x}} : TRUE

RECURSIVE Split(_)
Split(text) == IF text = <<>> THEN <<>> ELSE Head(text) \o Split(Tail(text))

\* l[i] with Python's 0-based index
Tok(l, i) == l[i + 1]

\* abs()
Abs(x) == IF x < 0 THEN -x ELSE x

\* float(l[6]) * 0.3048, in units of 1e-4 m
Feet2Metres(x) == x * 3048

\* np.pi / 180 * float(l[8]), in units of 1e-6 rad (pi/180 = 0.017453...)
Deg2Rad(x) == x * 17453

\* the day length added on an epoch rollover
DaySeconds == 86000

\* the epoch jump beyond which a sample is taken for a gap
GapThreshold == 600000

\* Plane.maxel's starting value
InitMaxel == -10

----------------------------------------------------------------------------
(* Plane *)

\* the result of a call: the object as the call left it, and whether the
\* call ended by raising
Ok(v) == [val |-> v, exc |-> FALSE]
Raise(v) == [val |-> v, exc |-> TRUE]

\* a rollover correction by the 86400 seconds of a full day
CorrectedEpoch_FullDay(raw, last_epoch) ==
    IF raw < last_epoch THEN raw + 86400 ELSE raw

\* self.epc[-1] after the rollover correction of addLine
CorrectedEpoch(raw, last_epoch) ==
    IF raw < last_epoch THEN raw + DaySeconds ELSE raw

\* the gap test of addLine
IsGap(epoch, last_epoch) == epoch - last_epoch > GapThreshold

\* a gap branch that leaves the appended epoch in place
GapDiscard_KeepsEpoch(self, e) ==
    [self EXCEPT !.epc = Append(@, e), !.gaps = 1]

\* a gap branch that moves last_epoch on to the discarded epoch
GapDiscard_Advances(self, e) ==
    [self EXCEPT !.gaps = 1, !.last_epoch = e]

\* the gap branch of addLine: the epoch appended is deleted again
GapDiscard(self, e) ==
    LET s1 == [self EXCEPT !.epc = Append(@, e), !.gaps = 1] IN
    [s1 EXCEPT !.epc = SubSeq(@, 1, Len(@) - 1)]

\* addLine from the first append on: every float() may raise, and leaves
\* what was appended before it in place
AppendSample(self, l) ==
    LET e == CorrectedEpoch(Float[Tok(l, 1)], self.last_epoch)
        s1 == [self EXCEPT !.epc = Append(@, e)]
    IN
    IF IsGap(e, self.last_epoch) THEN Ok(GapDiscard(self, e))
    ELSE IF ~IsFloat(Tok(l, 0)) THEN Raise(s1)
    ELSE LET s2 == [s1 EXCEPT !.mjd = Append(@, Float[Tok(l, 0)]),
                              !.last_epoch = e] IN
    IF ~IsFloat(Tok(l, 4)) THEN Raise(s2)
    ELSE LET s3 == [s2 EXCEPT !.lat = Append(@, Float[Tok(l, 4)])] IN
    IF ~IsFloat(Tok(l, 5)) THEN Raise(s3)
    ELSE LET s4 == [s3 EXCEPT !.lon = Append(@, Float[Tok(l, 5)])] IN
    IF ~IsFloat(Tok(l, 6)) THEN Raise(s4)
    ELSE LET s5 == [s4 EXCEPT !.alt = Append(@, Feet2Metres(Float[Tok(l, 6)]))] IN
    IF ~IsFloat(Tok(l, 7)) THEN Raise(s5)
    ELSE LET s6 == [s5 EXCEPT !.ran = Append(@, Float[Tok(l, 7)])] IN
    IF ~IsFloat(Tok(l, 8)) THEN Raise(s6)
    ELSE LET el == Float[Tok(l, 9)]
             s7 == [s6 EXCEPT !.az = Append(@, Deg2Rad(Float[Tok(l, 8)]))]
         IN Ok([s7 EXCEPT !.el = Append(@, el),
                          !.maxel = IF el > @ THEN el ELSE @])

\* Plane.addLine(l), l an already split line
addLine(self, l) ==
    IF Len(l) # 13 THEN Ok(self)
    ELSE IF ~IsFloat(Tok(l, 9)) THEN Raise(self)
    ELSE IF Float[Tok(l, 9)] < self.minel THEN Ok(self)
    ELSE IF ~IsFloat(Tok(l, 1)) THEN Raise(self)
    ELSE AppendSample(self, l)

\* the fields of a Plane before Plane.__init__ calls addLine
NewPlane(l, minelArg) ==
    [id |-> Tok(l, 2), code |-> Tok(l, 3), minel |-> minelArg,
     mjd |-> <<>>, epc |-> <<>>, lat |-> <<>>, lon |-> <<>>, alt |-> <<>>,
     ran |-> <<>>, az |-> <<>>, el |-> <<>>,
     last_epoch |-> Float[Tok(l, 1)], maxel |-> InitMaxel, gaps |-> 0]

\* a constructor that leaves out the call of addLine
PlaneInit_NoSample(l, minelArg) ==
    IF ~IsFloat(Tok(l, 1)) THEN Raise(<<>>)
    ELSE Ok(NewPlane(l, minelArg))

\* Plane(line, minel): raises when float(l[1]) or addLine raises, and then
\* no Plane comes into being
PlaneInit(l, minelArg) ==
    IF ~IsFloat(Tok(l, 1)) THEN Raise(<<>>)
    ELSE addLine(NewPlane(l, minelArg), l)

----------------------------------------------------------------------------
(* addPlanes *)

\* a loop that also makes a Plane of a record at or below minel
ApplySplit_NoFilter(d, l, minelArg) ==
    IF Len(l) < 10 \/ ~IsFloat(Tok(l, 9)) THEN Raise(d)
    ELSE LET id == Tok(l, 2) IN
         IF id \notin DOMAIN d
         THEN With(PlaneInit(l, minelArg),
                   LAMBDA r : IF r.exc THEN Raise(d) ELSE Ok(d @@ (id :> r.val)))
         ELSE With(addLine(d[id], l),
                   LAMBDA r : [val |-> [d EXCEPT ![id] = r.val], exc |-> r.exc])

\* one turn of addPlanes' loop on planes_dict d
ApplySplit(d, l, minelArg) ==
    IF Len(l) < 10 \/ ~IsFloat(Tok(l, 9)) THEN Raise(d)
    ELSE IF ~(Float[Tok(l, 9)] > minelArg) THEN Ok(d)
    ELSE LET id == Tok(l, 2) IN
         IF id \notin DOMAIN d
         THEN With(PlaneInit(l, minelArg),
                   LAMBDA r : IF r.exc THEN Raise(d) ELSE Ok(d @@ (id :> r.val)))
         ELSE With(addLine(d[id], l),
                   LAMBDA r : [val |-> [d EXCEPT ![id] = r.val], exc |-> r.exc])

ApplyLine(d, line, minelArg) ==
    With(Split(line), LAMBDA l : ApplySplit(d, l, minelArg))

\* addPlanes' loop: the lines in order, ended by the first that raises
RECURSIVE ApplyLines(_, _, _)
ApplyLines(d, lines, minelArg) ==
    IF lines = <<>> THEN Ok(d)
    ELSE With(ApplyLine(d, Head(lines), minelArg),
              LAMBDA r : IF r.exc THEN r
                         ELSE ApplyLines(r.val, Tail(lines), minelArg))

\* an eviction test that also deletes at exactly time_alive
StaleKeys_AtLeast(d, last_epoch, timeAlive) ==
    {k \in DOMAIN d : Abs(last_epoch - d[k].last_epoch) >= timeAlive}

\* the keys addPlanes deletes: no beacon for more than time_alive
StaleKeys(d, last_epoch, timeAlive) ==
    {k \in DOMAIN d : Abs(last_epoch - d[k].last_epoch) > timeAlive}

\* the removal of stale planes that ends addPlanes; del names what it deleted
Evict(d, lines, timeAlive) ==
    IF Cardinality(DOMAIN d) = 0 \/ Len(lines) = 0
    THEN [val |-> d, exc |-> FALSE, del |-> {}]
    ELSE IF ~(timeAlive > 0) THEN [val |-> d, exc |-> FALSE, del |-> {}]
    ELSE LET l == Split(lines[Len(lines)]) IN
         IF ~IsFloat(Tok(l, 1)) THEN [val |-> d, exc |-> TRUE, del |-> {}]
         ELSE LET stale == StaleKeys(d, Float[Tok(l, 1)], timeAlive) IN
              [val |-> [k \in DOMAIN d \ stale |-> d[k]], exc |-> FALSE,
               del |-> stale]

\* addPlanes(planeLines, planes_dict, minel, time_alive)
addPlanes(lines, d, minelArg, timeAlive) ==
    With(ApplyLines(d, lines, minelArg),
         LAMBDA r : IF r.exc THEN [val |-> r.val, exc |-> TRUE, del |-> {}]
                    ELSE Evict(r.val, lines, timeAlive))

----------------------------------------------------------------------------
(* Lines *)

Ids == {"4ca626", "a2b728"}
Epochs == {"100", "115", "116", "600116"}

\* a text of one 13-token position line
PLine(epoch, id, el) ==
    <<<<"56395", epoch, id, "RYR8JT", "50", "-1", "29525", "68", "280", el,
        "-474", "191", "1088">>>>

\* the one-line text with its token i (0-based) replaced by a non-numeric one
Garbled(line, i) == <<[line[1] EXCEPT ![i + 1] = "x"]>>

\* position lines: the first aircraft at every epoch and elevation, the
\* second at two epochs
WellFormedLines ==
    {PLine(e, "4ca626", "7") : e \in Epochs}
    \cup {PLine("100", "4ca626", el) : el \in {"-1", "0", "20"}}
    \cup {PLine(e, "a2b728", "7") : e \in {"100", "116"}}

\* 13-token lines with one field that is no number
MalformedLines ==
    {Garbled(PLine("115", "4ca626", "7"), i) : i \in {0, 1, 5, 9}}

\* every float() that addPlanes or addLine may apply to l succeeds
WellFormed(line) ==
    /\ Len(Split(line)) = 13
    /\ \A i \in {0, 1, 4, 5, 6, 7, 8, 9} : IsFloat(Tok(Split(line), i))

\* the batches tried: none, one or two of the lines S
Batches(S) == {<<>>} \cup {<<x>> : x \in S} \cup {<<x, y>> : x \in S, y \in S}

----------------------------------------------------------------------------
(* The track store on its own: addPlanes called batch after batch *)

ParkedTelescope == <<"0", "0", "0", "00.00", "00.00", "1">>

\* (minel, time_alive) as updateData passes them, as loadPlanesFile leaves
\* them, and with a zero time_alive
CallArgs == {<<0, 15>>, <<-5, -1>>, <<0, 0>>}

IdleRest ==
    /\ telLines = ParkedTelescope
    /\ queues = <<>> /\ workers = <<>> /\ planeQueue = 0 /\ procWorker = 0
    /\ data_lines = <<>>
    /\ datafile = <<>> /\ pos = 0 /\ N_lines = 0 /\ i_read = 0
    /\ anim = "stopped"

StoreInit(args) ==
    /\ P = <<>>
    /\ keys = {}
    /\ raised = FALSE
    /\ \E a \in args : minel = a[1] /\ time_alive = a[2]
    /\ sup = "store"
    /\ IdleRest

\* no plane is at the model's sample bound
RoomFor(n) == \A k \in DOMAIN P : Len(P[k].epc) + n <= MaxSamples

\* P = addPlanes(batch, P, minel, time_alive)
AddPlanesCall(batch) ==
    /\ sup = "store"
    /\ RoomFor(Len(batch))
    /\ LET r == addPlanes(batch, P, minel, time_alive) IN
       /\ P' = r.val
       /\ raised' = r.exc
       /\ keys' = r.del
    /\ UNCHANGED <<telLines, liveVars, sup, replayVars, argVars>>

StoreNext(lines) == \E batch \in Batches(lines) : AddPlanesCall(batch)

\* any 13-token lines
StoreSpec ==
    StoreInit(CallArgs) /\ [][StoreNext(WellFormedLines \cup MalformedLines)]_vars

\* position records only: every numeric field is a number
RecordSpec == StoreInit(CallArgs) /\ [][StoreNext(WellFormedLines)]_vars

----------------------------------------------------------------------------
(* Live operation: receive_proc, the queue, and updateData's live branch *)

\* the server address every worker is started with
L2P_HOST == "l2p_host:l2p_port"

\* the string receive_proc puts on a send or receive failure
ConnError == <<<<"CONN", "ERROR">>>>

\* telescope lines, 6 tokens
TLine(az, flag) == <<<<"56692", "41847", "telscp", az, "65", flag>>>>

\* what recv(256) may return: one position line, one telescope line, two
\* lines in one chunk (19 tokens), the tail end of a line cut by the read
\* (2 tokens), a 13-token line with a field that is no number
WirePayloads ==
    {PLine("100", "4ca626", "7"),
     TLine("75", "1"),
     PLine("100", "4ca626", "7") \o TLine("75", "1"),
     <<<<"191", "1088">>>>,
     Garbled(PLine("100", "4ca626", "7"), 0)}

\* multiprocessing.Queue()
NewQueue == [items |-> <<>>, closed |-> FALSE]

\* Queue.close() by the application, its only reader: what the queue holds
\* or is given from then on is never read, and is not kept
CloseQueue(q) == [items |-> <<>>, closed |-> TRUE]

\* a queue that hands out the newest item first
Put_AtHead(q, item) ==
    IF q.closed THEN q ELSE [q EXCEPT !.items = <<item>> \o @]

\* Queue.put(item)
Put(q, item) == IF q.closed THEN q ELSE [q EXCEPT !.items = Append(@, item)]

\* multiprocessing.Process(target=receive_proc, args=[queue q, L2P_HOST]),
\* started: about to connect
NewWorker(q) == [pc |-> "connect", q |-> q, host |-> L2P_HOST, connected |-> FALSE]

\* a worker process that still runs
Alive(w) == w.pc \in {"connect", "send", "recv", "fail"}

\* Process.terminate(): ends the process unless it has ended
Terminate(w) == IF Alive(w) THEN [w EXCEPT !.pc = "terminated"] ELSE w

\* a reconnect that leaves the old worker running
reconnect_KeepsWorker(s) ==
    LET q == Len(s.queues) + 1 IN
    [queues |-> Append([s.queues EXCEPT ![s.planeQueue] = CloseQueue(@)], NewQueue),
     planeQueue |-> q,
     workers |-> Append(s.workers, NewWorker(q)),
     procWorker |-> Len(s.workers) + 1]

\* L2pRadar.reconnect() on the live state s = [queues, workers, planeQueue,
\* procWorker]
reconnect(s) ==
    LET q == Len(s.queues) + 1 IN
    [queues |-> Append([s.queues EXCEPT ![s.planeQueue] = CloseQueue(@)], NewQueue),
     planeQueue |-> q,
     workers |-> Append([s.workers EXCEPT ![s.procWorker] = Terminate(@)],
                        NewWorker(q)),
     procWorker |-> Len(s.workers) + 1]

\* a classifier that takes every item of 13 tokens or more as a plane line
ClassifyLine_AtLeast13(acc, line) ==
    LET L == Len(Split(line)) IN
    IF L >= 13 THEN [acc EXCEPT !.plines = Append(@, line)]
    ELSE IF L = 6 THEN [acc EXCEPT !.tlines = Append(@, line)]
    ELSE IF L = 2 THEN [acc EXCEPT !.live = reconnect(@)]
    ELSE acc

\* a classifier whose reconnect throws away the lines gathered so far
ClassifyLine_ReconnectDrops(acc, line) ==
    LET L == Len(Split(line)) IN
    IF L = 13 THEN [acc EXCEPT !.plines = Append(@, line)]
    ELSE IF L = 6 THEN [acc EXCEPT !.tlines = Append(@, line)]
    ELSE IF L = 2 THEN [acc EXCEPT !.live = reconnect(@), !.plines = <<>>,
                                   !.tlines = <<>>]
    ELSE acc

\* one turn of process_lines' loop; acc = [plines, tlines, live]
ClassifyLine(acc, line) ==
    LET L == Len(Split(line)) IN
    IF L = 13 THEN [acc EXCEPT !.plines = Append(@, line)]
    ELSE IF L = 6 THEN [acc EXCEPT !.tlines = Append(@, line)]
    ELSE IF L = 2 THEN [acc EXCEPT !.live = reconnect(@)]
    ELSE acc

\* L2pRadar.process_lines(data_lines) from the live state s
RECURSIVE ProcessFrom(_, _)
ProcessFrom(acc, lines) ==
    IF lines = <<>> THEN acc
    ELSE ProcessFrom(ClassifyLine(acc, Head(lines)), Tail(lines))

process_lines(lines, s) ==
    ProcessFrom([plines |-> <<>>, tlines |-> <<>>, live |-> s], lines)

LiveState ==
    [queues |-> queues, workers |-> workers, planeQueue |-> planeQueue,
     procWorker |-> procWorker]

\* most payloads the model holds between the socket and process_lines
MaxQueue == 2
\* most workers the model starts
MaxWorkers == 3

\* the items the application has yet to process, oldest first
Pending == data_lines \o queues[planeQueue].items

CountIf(seq, Test(_)) == Len(SelectSeq(seq, Test))

IsTwoTokens(line) == Len(Split(line)) = 2
IsThirteenTokens(line) == Len(Split(line)) = 13

\* the workers that will be started for what has already happened: one for
\* every 2-token item pending, one for a worker bound to put "CONN ERROR"
Owed ==
    CountIf(Pending, IsTwoTokens)
    + (IF procWorker > 0 /\ (workers[procWorker].pc = "fail"
           \/ (workers[procWorker].pc = "send" /\ ~workers[procWorker].connected))
       THEN 1 ELSE 0)

\* the model lets one more thing happen that ends in a reconnect
MayTrigger == Len(workers) + Owed < MaxWorkers

\* the model lets the server deliver this payload
MayDeliver(data) ==
    /\ Len(Pending) < MaxQueue
    /\ IsTwoTokens(data) => MayTrigger
    /\ IsThirteenTokens(data) =>
          \A k \in DOMAIN P :
              Len(P[k].epc) + CountIf(Pending, IsThirteenTokens) < MaxSamples

\* L2pRadar.__init__ without replay: run(newcon=True)
LiveInit ==
    /\ P = <<>> /\ keys = {} /\ raised = FALSE
    /\ telLines = ParkedTelescope
    /\ minel = 0 /\ time_alive = 15
    /\ queues = <<NewQueue>> /\ planeQueue = 1
    /\ workers = <<NewWorker(1)>> /\ procWorker = 1
    /\ data_lines = <<>>
    /\ sup = "get"
    /\ datafile = <<>> /\ pos = 0 /\ N_lines = 0 /\ i_read = 0
    /\ anim = "running"

storeLive == <<P, telLines, keys, raised, replayVars, argVars>>

\* receive_proc: connSocket.connect(L2P_HOST); an error is printed and the
\* loop is entered all the same
WorkerConnect(w) ==
    /\ workers[w].pc = "connect"
    /\ \/ workers' = [workers EXCEPT ![w].pc = "send", ![w].connected = TRUE]
       \/ /\ MayTrigger
          /\ workers' = [workers EXCEPT ![w].pc = "send"]
    /\ UNCHANGED <<storeLive, queues, planeQueue, procWorker, data_lines, sup>>

\* receive_proc: connSocket.send('reader\0'); a socket that never connected
\* cannot send
WorkerSend(w) ==
    /\ workers[w].pc = "send"
    /\ \/ /\ workers[w].connected
          /\ workers' = [workers EXCEPT ![w].pc = "recv"]
       \/ /\ ~workers[w].connected \/ MayTrigger
          /\ workers' = [workers EXCEPT ![w].pc = "fail"]
    /\ UNCHANGED <<storeLive, queues, planeQueue, procWorker, data_lines, sup>>

\* receive_proc: data = connSocket.recv(256); planeQueue.put(data)
WorkerRecv(w, data) ==
    /\ workers[w].pc = "recv"
    /\ MayDeliver(data)
    /\ queues' = [queues EXCEPT ![workers[w].q] = Put(@, data)]
    /\ workers' = [workers EXCEPT ![w].pc = "send"]
    /\ UNCHANGED <<storeLive, planeQueue, procWorker, data_lines, sup>>

\* receive_proc: connSocket.recv(256) raises socket.error
WorkerRecvFails(w) ==
    /\ workers[w].pc = "recv"
    /\ MayTrigger
    /\ workers' = [workers EXCEPT ![w].pc = "fail"]
    /\ UNCHANGED <<storeLive, queues, planeQueue, procWorker, data_lines, sup>>

\* a worker that ends after a failure without putting anything
WorkerPutError_Silent(w) ==
    /\ workers[w].pc = "fail"
    /\ workers' = [workers EXCEPT ![w].pc = "done"]
    /\ UNCHANGED <<storeLive, queues, planeQueue, procWorker, data_lines, sup>>

\* a worker that puts 'CONN ERROR' and goes on with its loop
WorkerPutError_GoesOn(w) ==
    /\ workers[w].pc = "fail"
    /\ queues' = [queues EXCEPT ![workers[w].q] = Put(@, ConnError)]
    /\ workers' = [workers EXCEPT ![w].pc = "send"]
    /\ UNCHANGED <<storeLive, planeQueue, procWorker, data_lines, sup>>

\* receive_proc after a failure: time.sleep(1.5); planeQueue.put('CONN
\* ERROR'); break
WorkerPutError(w) ==
    /\ workers[w].pc = "fail"
    /\ queues' = [queues EXCEPT ![workers[w].q] = Put(@, ConnError)]
    /\ workers' = [workers EXCEPT ![w].pc = "done"]
    /\ UNCHANGED <<storeLive, planeQueue, procWorker, data_lines, sup>>

\* dump_queue: data_lines.append(planeQueue.get()), which waits for an item,
\* and the qsize() test that ends the loop
DumpQueueGet ==
    /\ sup = "get"
    /\ queues[planeQueue].items # <<>>
    /\ data_lines' = Append(data_lines, Head(queues[planeQueue].items))
    /\ queues' = [queues EXCEPT ![planeQueue].items = Tail(@)]
    /\ sup' = IF Len(queues[planeQueue].items) = 1 THEN "process" ELSE "get"
    /\ UNCHANGED <<storeLive, workers, planeQueue, procWorker>>

\* updateData without replay, from dump_queue's return on
UpdateDataLive ==
    /\ sup = "process"
    /\ \E r \in {process_lines(data_lines, LiveState)} :
       \E a \in {addPlanes(r.plines, P, minel, time_alive)} :
          /\ queues' = r.live.queues
          /\ workers' = r.live.workers
          /\ planeQueue' = r.live.planeQueue
          /\ procWorker' = r.live.procWorker
          /\ P' = a.val
          /\ keys' = a.del
          /\ raised' = a.exc
          /\ telLines' = IF ~a.exc /\ Len(r.tlines) > 0
                         THEN r.tlines[Len(r.tlines)] ELSE telLines
    /\ data_lines' = <<>>
    /\ sup' = "get"
    /\ UNCHANGED <<replayVars, argVars>>

\* L2pRadar.close() without replay, between two cycles
Close ==
    /\ sup = "get"
    /\ data_lines = <<>>
    /\ workers' = [workers EXCEPT ![procWorker] = Terminate(@)]
    /\ queues' = [queues EXCEPT ![planeQueue] = CloseQueue(@)]
    /\ sup' = "closed"
    /\ UNCHANGED <<storeLive, planeQueue, procWorker, data_lines>>

LiveNext(payloads) ==
    \/ \E w \in DOMAIN workers : WorkerConnect(w)
    \/ \E w \in DOMAIN workers : WorkerSend(w)
    \/ \E w \in DOMAIN workers : \E data \in payloads : WorkerRecv(w, data)
    \/ \E w \in DOMAIN workers : WorkerRecvFails(w)
    \/ \E w \in DOMAIN workers : WorkerPutError(w)
    \/ DumpQueueGet
    \/ UpdateDataLive
    \/ Close

Next == LiveNext(WirePayloads)

\* live operation, the server sending any of WirePayloads
Spec == LiveInit /\ [][Next]_vars

\* live operation with the scheduling the program has: a worker process
\* that can take a step that does not wait for the server takes it, and the
\* animation timer keeps calling updateData
\* a step of a worker that does not wait for the server
WorkerProgress ==
    \E w \in DOMAIN workers :
        WorkerConnect(w) \/ WorkerSend(w) \/ WorkerPutError(w)

\* a step of updateData
SupervisorStep == DumpQueueGet \/ UpdateDataLive

Fairness == WF_vars(WorkerProgress) /\ WF_vars(SupervisorStep)

\* what the server sends in the fair specification
FewPayloads == {PLine("100", "4ca626", "7"), <<<<"191", "1088">>>>}

FairNext == LiveNext(FewPayloads)

FairSpec == LiveInit /\ [][FairNext]_vars /\ Fairness

----------------------------------------------------------------------------
(* Replay: dataFakeRead and updateData's replay branch *)

\* longest recording tried
MaxFileLen == 4
\* largest N_lines tried
MaxNLines == 2

\* dataFakeRead's loop from offset cur with i lines read: its first yield.
\* An offset counts the lines before it; readline() at the end gives ''.
RECURSIVE ReadLoop(_, _, _, _, _, _)
ReadLoop(f, cur, i, plines, tlines, n) ==
    IF cur >= Len(f)
    THEN [plines |-> plines, tlines |-> tlines, pos |-> cur, i |-> i]
    ELSE LET line == f[cur + 1]
             L == Len(Split(line))
             pl == IF L = 13 THEN Append(plines, line) ELSE plines
             tl == IF L # 13 /\ L = 6 THEN Append(tlines, line) ELSE tlines
         IN IF i + 1 > n
            THEN [plines |-> pl, tlines |-> tl, pos |-> cur + 1, i |-> i + 1]
            ELSE ReadLoop(f, cur + 1, i + 1, pl, tl, n)

\* a reader that does not seek to init_pos
dataFakeRead_NoSeek(f, init_pos, n) == ReadLoop(f, 0, 0, <<>>, <<>>, n)

\* dataFakeRead(f, init_pos, N_lines).next(), init_pos an offset
dataFakeRead(f, init_pos, n) == ReadLoop(f, init_pos, 0, <<>>, <<>>, n)

\* dataFakeRead(f, None, N_lines).next(): from the end of the file
dataFakeReadTail(f, n) == dataFakeRead(f, Len(f), n)

\* the lines of a recording: two position lines, a telescope line, and a
\* line of another token count
FileLines ==
    {PLine("100", "4ca626", "7"), PLine("116", "4ca626", "7"),
     TLine("75", "1"), <<<<"191", "1088">>>>}

RECURSIVE SeqsUpTo(_, _)
SeqsUpTo(S, n) ==
    IF n = 0 THEN {<<>>}
    ELSE LET shorter == SeqsUpTo(S, n - 1) IN
         shorter \cup {Append(x, y) : x \in shorter, y \in S}

\* L2pRadar.__init__ with replay: the file opened, pos = tell(), and
\* run(newcon=False)
ReplayInit ==
    /\ P = <<>> /\ keys = {} /\ raised = FALSE
    /\ telLines = ParkedTelescope
    /\ minel = 0 /\ time_alive = 15
    /\ queues = <<>> /\ planeQueue = 0 /\ workers = <<>> /\ procWorker = 0
    /\ data_lines = <<>>
    /\ sup = "replay"
    /\ datafile \in SeqsUpTo(FileLines, MaxFileLen)
    /\ pos = 0
    /\ N_lines \in 0..MaxNLines
    /\ i_read = 0
    /\ anim = "running"

\* updateData with replay, called by the running animation
UpdateDataReplay ==
    /\ sup = "replay"
    /\ anim = "running"
    /\ LET r == dataFakeRead(datafile, pos, N_lines)
           a == addPlanes(r.plines, P, minel, time_alive)
       IN /\ pos' = r.pos
          /\ i_read' = r.i
          /\ P' = a.val
          /\ keys' = a.del
          /\ raised' = a.exc
          /\ anim' = IF ~a.exc /\ r.plines = <<>> THEN "stopped" ELSE anim
          /\ telLines' = IF ~a.exc /\ Len(r.tlines) > 0
                         THEN r.tlines[Len(r.tlines)] ELSE telLines
    /\ UNCHANGED <<liveVars, sup, datafile, argVars>>

\* plotLimitUp, plotLimitDown, plotRotate: self.anim._stop() and
\* run(newcon=False), which starts the animation anew
PlotRestart ==
    /\ sup = "replay"
    /\ anim = "stopped"
    /\ anim' = "running"
    /\ UNCHANGED <<P, telLines, keys, raised, liveVars, sup, datafile, pos,
                   i_read, argVars>>

ReplayNext == UpdateDataReplay \/ PlotRestart

ReplaySpec == ReplayInit /\ [][ReplayNext]_vars

----------------------------------------------------------------------------
(* Track store properties *)

SampleFields == {"mjd", "epc", "lat", "lon", "alt", "ran", "az", "el"}

\* the eight sample sequences of a Plane have one length
SameLength(plane) == \A f \in SampleFields : Len(plane[f]) = Len(plane.epc)

\* C1: under any sequence of addPlanes calls on position records whose
\* numeric fields are numbers, every Plane of P has its eight sample
\* sequences (mjd, epc, lat, lon, alt, ran, az, el) of the same length.
C1_EqualLengths == \A k \in DOMAIN P : SameLength(P[k])

\* a Plane that was flagged for a gap and then took a rollover-corrected
\* second sample, after an elevation-rejected record was offered
C1_Witness ==
    \E k \in DOMAIN P :
        /\ P[k].gaps = 1
        /\ Len(P[k].epc) = 2
        /\ P[k].epc[2] >= 86000
        /\ SameLength(P[k])

\* the non-empty batches of position records
RecordBatches == Batches(WellFormedLines) \ {<<>>}

\* C2: addPlanes with time_alive = 15 on a non-empty batch whose last record
\* has raw epoch E leaves exactly the Planes, as they stand after the batch's
\* records were applied, with |E - last_epoch| <= 15.
C2_EvictsExactlyStale ==
    time_alive = 15 =>
    \A batch \in RecordBatches :
        LET applied == ApplyLines(P, batch, minel).val
            E == Float[Tok(Split(batch[Len(batch)]), 1)]
            r == addPlanes(batch, P, minel, time_alive)
        IN /\ ~r.exc
           /\ DOMAIN r.val =
                  {k \in DOMAIN applied : Abs(E - applied[k].last_epoch) <= 15}
           /\ \A k \in DOMAIN r.val : r.val[k] = applied[k]

\* a call with time_alive = 15 deleted a Plane and kept another
C2_Witness == time_alive = 15 /\ keys # {} /\ DOMAIN P # {}

\* the position records for Plane k that addPlanes hands to its addLine
RecordsFor(k) ==
    {l \in WellFormedLines :
        Tok(Split(l), 2) = k /\ Float[Tok(Split(l), 9)] > minel}

\* C3: a record applied to an existing Plane whose raw epoch is smaller than
\* the Plane's last_epoch is stored with epoch raw + 86000, and one whose
\* raw epoch is not smaller is stored with its raw epoch.
C3_RolloverAdds86000 ==
    \A k \in DOMAIN P : \A l \in RecordsFor(k) :
        LET raw == Float[Tok(Split(l), 1)]
            after == ApplyLine(P, l, minel).val[k]
            n == Len(after.epc)
        IN n = Len(P[k].epc) + 1 =>
              after.epc[n] = IF raw < P[k].last_epoch THEN raw + 86000 ELSE raw

\* a Plane holds a raw epoch followed by a smaller one stored 86000 later
C3_Witness ==
    \E k \in DOMAIN P :
        /\ Len(P[k].epc) = 2
        /\ P[k].epc[1] = 115
        /\ P[k].epc[2] = 86100

\* C4: a record applied to an existing Plane whose corrected epoch is more
\* than 600000 past the Plane's last_epoch sets gaps and changes nothing
\* else: no sequence grows, last_epoch and maxel stay.
C4_GapOnlySetsFlag ==
    \A k \in DOMAIN P : \A l \in RecordsFor(k) :
        LET raw == Float[Tok(Split(l), 1)]
            e == IF raw < P[k].last_epoch THEN raw + 86000 ELSE raw
            r == addLine(P[k], Split(l))
        IN e - P[k].last_epoch > 600000 =>
              /\ ~r.exc
              /\ r.val.gaps = 1
              /\ r.val = [P[k] EXCEPT !.gaps = 1]

\* a Plane was flagged for a gap and holds the one sample it had before
C4_Witness ==
    \E k \in DOMAIN P :
        /\ P[k].gaps = 1
        /\ P[k].epc = <<100>>
        /\ P[k].last_epoch = 100

\* the batches that hold a 13-token line with a non-numeric field
GarbledBatches ==
    {b \in Batches(WellFormedLines \cup MalformedLines) :
        \E i \in 1..Len(b) : ~WellFormed(b[i])}

\* C10: a 13-token record with a non-numeric field, applied to a store that
\* holds its aircraft, aborts only that record: no error leaves addPlanes,
\* and the Planes are as the batch without that record leaves them (the
\* existing ones untouched by it, the other records applied).
C10_AbortsOnlyThatRecord ==
    \A b \in GarbledBatches :
        LET r == ApplyLines(P, b, minel)
            rest == ApplyLines(P, SelectSeq(b, WellFormed), minel)
        IN (\A i \in 1..Len(b) : Tok(Split(b[i]), 2) \in DOMAIN P) =>
              ~r.exc /\ r.val = rest.val

\* an addPlanes call raised and left a Plane with sequences of two lengths
C10_Corrupted == raised /\ \E k \in DOMAIN P : ~SameLength(P[k])

----------------------------------------------------------------------------
(* Live operation properties *)

IsSixTokens(line) == Len(Split(line)) = 6

\* the step is updateData's: process_lines, addPlanes and the telescope line
CycleStep == sup = "process" /\ sup' = "get"

\* C5: process_lines routes an item by its token count alone: the 13-token
\* items, in order, are what addPlanes is given; the last 6-token item
\* becomes the telescope line; every 2-token item starts one more worker on
\* one more queue; and a cycle whose items all have another count changes
\* neither P, telLines, the queues nor the workers.
C5_RoutedByTokenCount ==
    [][CycleStep =>
         LET pl == SelectSeq(data_lines, IsThirteenTokens)
             tl == SelectSeq(data_lines, IsSixTokens)
             n2 == CountIf(data_lines, IsTwoTokens)
             a == addPlanes(pl, P, 0, 15)
         IN /\ P' = a.val
            /\ raised' = a.exc
            /\ telLines' = IF tl # <<>> /\ ~a.exc THEN tl[Len(tl)] ELSE telLines
            /\ Len(workers') = Len(workers) + n2
            /\ Len(queues') = Len(queues) + n2
            /\ procWorker' = procWorker + n2
            /\ planeQueue' = planeQueue + n2
            /\ n2 = 0 => UNCHANGED <<queues, workers>>
            /\ (pl = <<>> /\ tl = <<>> /\ n2 = 0) =>
                  UNCHANGED <<P, telLines, queues, workers, planeQueue, procWorker>>
      ]_vars

\* process_lines is about to classify a 19-token item and a 2-token item
C5_Witness ==
    /\ sup = "process"
    /\ \E i, j \in DOMAIN data_lines :
          /\ Len(Split(data_lines[i])) = 19
          /\ Len(Split(data_lines[j])) = 2

NotTwoTokens(line) == ~IsTwoTokens(line)

\* C6: a cycle that reconnects (it holds a 2-token item) leaves P and telLines
\* as the same cycle without its 2-token items would: a cycle of 2-token items
\* alone changes neither, no Plane loses a sample it held, and only the
\* queues and workers differ.
C6_ReconnectKeepsStore ==
    [][(CycleStep /\ \E i \in DOMAIN data_lines : IsTwoTokens(data_lines[i])) =>
         LET rest == SelectSeq(data_lines, NotTwoTokens)
             pl == SelectSeq(rest, IsThirteenTokens)
             tl == SelectSeq(rest, IsSixTokens)
             a == addPlanes(pl, P, 0, 15)
         IN /\ P' = a.val
            /\ telLines' = IF tl # <<>> /\ ~a.exc THEN tl[Len(tl)] ELSE telLines
            /\ rest = <<>> => UNCHANGED <<P, telLines>>
            /\ procWorker' > procWorker
      ]_vars

\* the cycle that has just reconnected kept the Plane and its samples
C6_Witness ==
    /\ sup = "get" /\ data_lines = <<>>
    /\ procWorker = 2
    /\ workers[2].pc = "connect"
    /\ \E k \in DOMAIN P : Len(P[k].epc) >= 1

\* worker i has hit a connect, send or receive failure
Failed(i) ==
    IF i \in DOMAIN workers
    THEN \/ workers[i].pc = "fail"
         \/ workers[i].pc = "send" /\ ~workers[i].connected
    ELSE FALSE

\* worker i and its queue are discarded, and a later worker runs on a queue
\* of its own for the same server address, the application taking its items
Recovered(i) ==
    IF procWorker > i
    THEN /\ ~Alive(workers[i])
         /\ queues[workers[i].q].closed
         /\ workers[procWorker].q = planeQueue
         /\ planeQueue > workers[i].q
         /\ ~queues[planeQueue].closed
         /\ workers[procWorker].host = workers[i].host
         /\ sup \in {"get", "process"}
    ELSE FALSE

\* C7: whenever a worker has hit a connect, send or receive failure, the
\* application eventually has discarded it and its queue and runs a fresh
\* worker on a fresh queue for the same address (unless it is closed first);
\* this holds for every worker, the first and the later ones.
C7_FailureLeadsToReconnect ==
    \A i \in 1..MaxWorkers : Failed(i) ~> (Recovered(i) \/ sup = "closed")

\* two workers in a row failed, put their "CONN ERROR" and were replaced
C7_Witness ==
    /\ procWorker = 3
    /\ workers[1].pc = "done" /\ workers[2].pc = "done"
    /\ Recovered(1) /\ Recovered(2)

\* the items put on worker w's queue that are not processed yet
Unprocessed(w) ==
    IF workers[w].q = planeQueue THEN Pending ELSE queues[workers[w].q].items

\* worker i pauses after a failure, "CONN ERROR" not put yet
Sleeping(i) == IF i \in DOMAIN workers THEN workers[i].pc = "fail" ELSE FALSE

\* worker i runs no more
Ended(i) == IF i \in DOMAIN workers THEN ~Alive(workers[i]) ELSE FALSE

\* C8: a worker that hit a failure puts "CONN ERROR" once and ends: the step
\* that ends a worker on its own is the put of "CONN ERROR", "CONN ERROR" is
\* the last item on its queue and its worker has ended, and a worker that
\* hit a failure ends (by itself or terminated).
C8_SentinelThenEnd ==
    /\ [](\A w \in DOMAIN workers :
            LET items == Unprocessed(w) IN
            /\ \A i \in DOMAIN items :
                  items[i] = ConnError =>
                      i = Len(items) /\ workers[w].pc = "done"
            /\ (workers[w].pc = "done" /\ ~queues[workers[w].q].closed) =>
                  items # <<>> /\ items[Len(items)] = ConnError)
    /\ [][\A w \in DOMAIN workers :
            (workers[w].pc # "done" /\ workers'[w].pc = "done") =>
                /\ workers[w].pc = "fail"
                /\ queues'[workers[w].q].items =
                      Append(queues[workers[w].q].items, ConnError)]_vars
    /\ \A i \in 1..MaxWorkers : Sleeping(i) ~> Ended(i)

\* a worker delivered a payload, then failed and put "CONN ERROR" behind it
C8_Witness ==
    /\ workers[1].pc = "done"
    /\ Len(Pending) >= 2
    /\ Pending[Len(Pending)] = ConnError
    /\ Pending[1] # ConnError

----------------------------------------------------------------------------
(* Replay properties *)

\* the step is updateData's in replay: nothing else runs while the
\* animation does
ReplayStep == sup = "replay" /\ anim = "running"

\* C9: dataFakeRead called from the end of the recording returns no plane
\* lines, no telescope lines and the end as the offset, and the same again
\* from the offset it returned; an updateData call made there raises nothing
\* and leaves the offset, P and telLines as they are.
C9_EndOfFileIsEmpty ==
    /\ [](LET end == Len(datafile)
              r == dataFakeRead(datafile, end, N_lines)
          IN /\ r.plines = <<>> /\ r.tlines = <<>>
             /\ r.pos = end
             /\ dataFakeRead(datafile, r.pos, N_lines) = r
             /\ dataFakeReadTail(datafile, N_lines) = r)
    /\ [][(ReplayStep /\ pos = Len(datafile)) =>
            /\ pos' = pos /\ i_read' = 0
            /\ ~raised'
            /\ UNCHANGED <<P, telLines>>]_vars

\* updateData was called at the end of a recording that held plane lines
C9_Witness ==
    /\ sup = "replay"
    /\ Len(datafile) > 0 /\ pos = Len(datafile)
    /\ i_read = 0
    /\ anim = "stopped"
    /\ P # <<>>

----------------------------------------------------------------------------
(* Payloads of several lines *)

\* the lines of the items, each as a text of its own, in order
RECURSIVE PayloadLines(_)
PayloadLines(items) ==
    IF items = <<>> THEN <<>>
    ELSE [i \in 1..Len(Head(items)) |-> <<Head(items)[i]>>]
         \o PayloadLines(Tail(items))

\* C11: every line of every payload is classified by its own token count: a
\* cycle in which no record raises gives addPlanes every 13-token line of
\* its payloads, in order, and takes the last 6-token line as the telescope
\* line, whether the line came alone or with others in one payload.
C11_EachLineClassified ==
    [][CycleStep =>
         LET lines == PayloadLines(data_lines)
             pl == SelectSeq(lines, IsThirteenTokens)
             tl == SelectSeq(lines, IsSixTokens)
             a == addPlanes(pl, P, 0, 15)
         IN (~a.exc /\ ~raised') =>
               /\ P' = a.val
               /\ telLines' = IF tl # <<>> THEN tl[Len(tl)] ELSE telLines
      ]_vars

----------------------------------------------------------------------------
(* The elevation cut *)

\* C12: a position record is rejected exactly when its elevation is below
\* minel: below it the store is left as it is; at minel or above, an unseen
\* aircraft gets its Plane and a known one gets the sample appended (or its
\* gap noted).
C12_RejectsOnlyBelow ==
    \A l \in WellFormedLines :
        LET t == Split(l)
            el == Float[Tok(t, 9)]
            id == Tok(t, 2)
            r == ApplyLine(P, l, minel)
        IN /\ el < minel => r.val = P
           /\ el >= minel =>
                 IF id \notin DOMAIN P
                 THEN id \in DOMAIN r.val
                 ELSE \/ Len(r.val[id].epc) = Len(P[id].epc) + 1
                      \/ r.val[id].gaps = 1

\* a record at exactly minel was offered to a store that held its aircraft
\* with one sample, and the Plane still holds that one sample
C12_AtCutNotAdmitted ==
    /\ minel = 0
    /\ \E k \in DOMAIN P :
          /\ Len(P[k].epc) = 1
          /\ P[k].gaps = 0
          /\ ApplyLine(P, PLine("115", k, "0"), minel).val = P

----------------------------------------------------------------------------
(* The wait in dump_queue *)

\* C13: updateData never waits in dump_queue for ever: whenever it is in
\* dump_queue it gets on to process what it took (or the application is
\* closed), also when the worker's recv() neither returns nor fails.
C13_DrainReturns == (sup = "get") ~> (sup \in {"process", "closed"})

\* updateData waits in get() on an empty queue while the worker waits in
\* recv(): no step of updateData can be taken
C13_Waiting ==
    /\ sup = "get"
    /\ data_lines = <<>>
    /\ queues[planeQueue].items = <<>>
    /\ workers[procWorker].pc = "recv"
    /\ ~ENABLED SupervisorStep

----------------------------------------------------------------------------
(* Order of arrival *)

\* two position lines of one aircraft that differ in epoch and elevation
OrderPayloads == {PLine("100", "4ca626", "7"), PLine("115", "4ca626", "20")}

OrderNext == LiveNext(OrderPayloads)

\* live operation with a server that sends the two lines in any order
OrderSpec == LiveInit /\ [][OrderNext]_vars

\* the elevations of the position lines among lines that addPlanes admits
\* for aircraft k, in the order of lines
RECURSIVE AdmittedEl(_, _)
AdmittedEl(lines, k) ==
    IF lines = <<>> THEN <<>>
    ELSE LET t == Split(Head(lines))
             mine == /\ Len(t) = 13
                     /\ Tok(t, 2) = k
                     /\ Float[Tok(t, 9)] > 0
         IN (IF mine THEN <<Float[Tok(t, 9)]>> ELSE <<>>)
            \o AdmittedEl(Tail(lines), k)

\* C14: items are taken in the order they were put: while the queue stays
\* the same one, what is taken and what waits (data_lines followed by the
\* queue) changes only by a put at its end; and a cycle appends to each Plane
\* the samples of its records in the order of data_lines.
C14_ArrivalOrder ==
    [][/\ (planeQueue' = planeQueue /\ ~CycleStep /\ sup' # "closed") =>
             \/ Pending' = Pending
             \/ \E x \in OrderPayloads \cup {ConnError} :
                   Pending' = Append(Pending, x)
       /\ (CycleStep /\ ~raised') =>
             \A k \in DOMAIN P' :
                 P'[k].el = (IF k \in DOMAIN P THEN P[k].el ELSE <<>>)
                            \o AdmittedEl(data_lines, k)
      ]_vars

\* the line of epoch 100 arrived before the line of epoch 115, and the Plane
\* holds their samples in that order
C14_Witness ==
    /\ sup = "get" /\ data_lines = <<>>
    /\ "4ca626" \in DOMAIN P
    /\ P["4ca626"].el = <<7, 20>>
    /\ P["4ca626"].epc = <<100, 115>>

----------------------------------------------------------------------------
(* The telescope line *)

\* C15: telLines is the parked default at the start, and after every cycle
\* it is the last 6-token item the cycle took, or what it was before when
\* the cycle took none: the last telescope line delivered so far.
C15_LastTelescopeWins ==
    /\ telLines = ParkedTelescope
    /\ [][CycleStep =>
            LET tl == SelectSeq(data_lines, IsSixTokens) IN
            telLines' = IF tl # <<>> THEN tl[Len(tl)] ELSE telLines]_vars

----------------------------------------------------------------------------
(* Creation of a Plane *)

\* C16: a position record above minel for an aircraft P does not hold makes
\* the Plane under the record's third token, with one sample: the raw epoch
\* (no rollover, no gap), azimuth from the 9th token and elevation from the
\* 10th; the other Planes stay; and no other line makes a Plane.
C16_FirstRecordCreates ==
    /\ \A l \in WellFormedLines :
          LET t == Split(l)
              raw == Float[t[2]]
              r == ApplyLine(P, l, minel)
          IN (t[3] \notin DOMAIN P /\ Float[t[10]] > minel) =>
                /\ ~r.exc
                /\ DOMAIN r.val = DOMAIN P \cup {t[3]}
                /\ \A k \in DOMAIN P : r.val[k] = P[k]
                /\ LET new == r.val[t[3]] IN
                   /\ new.id = t[3]
                   /\ \A f \in SampleFields : Len(new[f]) = 1
                   /\ new.epc = <<raw>>
                   /\ new.last_epoch = raw
                   /\ new.gaps = 0
                   /\ new.az = <<Deg2Rad(Float[t[9]])>>
                   /\ new.el = <<Float[t[10]]>>
                   /\ new.maxel = Float[t[10]]
    /\ \A l \in WellFormedLines \cup MalformedLines :
          LET t == Split(l) IN
          (t[3] \in DOMAIN P \/ ~IsFloat(t[10]) \/ ~WellFormed(l)
              \/ ~(Float[t[10]] > minel)) =>
                DOMAIN ApplyLine(P, l, minel).val = DOMAIN P

\* the second aircraft's first record made its Plane beside the first's
C16_Witness ==
    /\ DOMAIN P = {"4ca626", "a2b728"}
    /\ P["a2b728"].epc = <<116>>
    /\ P["a2b728"].el = <<7>>
    /\ P["a2b728"].id = "a2b728"
    /\ Len(P["4ca626"].epc) = 2

----------------------------------------------------------------------------
(* The size of a replay chunk *)

\* C17: a call of dataFakeRead with N_lines of one or more reads at most
\* N_lines lines: the offset it returns is at most N_lines lines past the
\* offset it was given.
C17_AtMostNLines ==
    /\ [](N_lines >= 1 =>
            \A p \in 0..Len(datafile) :
                dataFakeRead(datafile, p, N_lines).pos <= p + N_lines)
    /\ [][(ReplayStep /\ N_lines >= 1) => pos' <= pos + N_lines]_vars

\* the first call on a recording read N_lines + 1 lines
C17_OneLineMore ==
    /\ sup = "replay"
    /\ N_lines >= 1
    /\ i_read = N_lines + 1
    /\ pos = N_lines + 1

----------------------------------------------------------------------------
(* Eviction and the sign of time_alive *)

\* C18: addPlanes evicts exactly when time_alive >= 0: with time_alive = 0
\* and a non-empty batch it keeps only the Planes whose last_epoch is the
\* raw epoch of the batch's last record, and with a negative time_alive it
\* keeps every Plane.
C18_EvictsFromZero ==
    \A batch \in RecordBatches :
        LET applied == ApplyLines(P, batch, minel).val
            E == Float[Tok(Split(batch[Len(batch)]), 1)]
            r == addPlanes(batch, P, minel, time_alive)
        IN /\ time_alive >= 0 =>
                 DOMAIN r.val =
                     {k \in DOMAIN applied :
                         Abs(E - applied[k].last_epoch) <= time_alive}
           /\ time_alive < 0 => r.val = applied

\* calls with time_alive = 0 left two Planes last seen at different epochs
C18_StaleKept ==
    /\ time_alive = 0
    /\ \E k1, k2 \in DOMAIN P : P[k1].last_epoch # P[k2].last_epoch

----------------------------------------------------------------------------
(* Epochs around midnight *)

\* position records late in a day and early in the next, of two aircraft
DayLines ==
    {PLine(e, "4ca626", "7") : e \in {"86300", "100", "115"}}
    \cup {PLine(e, "a2b728", "7") : e \in {"86300", "100"}}

\* the track store on its own, given records from either side of midnight
DaySpec == StoreInit(CallArgs) /\ [][StoreNext(DayLines)]_vars

\* the sequence never steps down
NonDecreasing(seq) == \A i \in 1..Len(seq) - 1 : seq[i] <= seq[i + 1]

\* C19: the epochs a Plane stores never step down in the order of arrival,
\* and its last_epoch never decreases.
C19_EpochsNeverDecrease ==
    /\ [](\A k \in DOMAIN P : NonDecreasing(P[k].epc))
    /\ [][\A k \in DOMAIN P \cap DOMAIN P' :
             P'[k].last_epoch >= P[k].last_epoch]_vars

\* a Plane seen at 86300 and then at 100 holds the later sample 200 seconds
\* before the earlier one
C19_SteppedBack ==
    \E k \in DOMAIN P :
        /\ P[k].epc = <<86300, 86100>>
        /\ P[k].last_epoch = 86100

----------------------------------------------------------------------------
(* One worker, one queue *)

\* the workers that still run
AliveWorkers == {w \in DOMAIN workers : Alive(workers[w])}

\* C20: in live operation, from the start through every reconnect to close,
\* at most one worker runs, and it is procWorker putting on planeQueue; every
\* queue has the one worker that was created with it, and only that worker's
\* steps add items to it; and updateData takes items from planeQueue alone,
\* never from a queue that was closed.
C20_OneWorkerOneQueue ==
    /\ [](/\ Cardinality(AliveWorkers) <= 1
          /\ \A w \in AliveWorkers :
                /\ w = procWorker
                /\ workers[w].q = planeQueue
                /\ ~queues[planeQueue].closed
          /\ Len(workers) = Len(queues)
          /\ \A w \in DOMAIN workers : workers[w].q = w
          /\ workers[procWorker].q = planeQueue)
    /\ [][/\ \A q \in DOMAIN queues :
                Len(queues'[q].items) > Len(queues[q].items) =>
                    /\ Alive(workers[q])
                    /\ workers'[q].pc # workers[q].pc
                    /\ q = planeQueue
          /\ (data_lines' # data_lines /\ data_lines' # <<>>) =>
                /\ ~queues[planeQueue].closed
                /\ data_lines' =
                      Append(data_lines, Head(queues[planeQueue].items))
          /\ \A q \in DOMAIN queues :
                queues[q].closed => queues'[q] = queues[q]
      ]_vars

\* after two reconnects the third worker runs alone on the third queue, and
\* after close none runs
C20_Witness ==
    /\ sup = "closed"
    /\ Len(workers) = 3
    /\ AliveWorkers = {}
    /\ \A q \in DOMAIN queues : queues[q].closed

----------------------------------------------------------------------------
(* The Plane of a batch's last record *)

\* the batch without its last line
Front(batch) == SubSeq(batch, 1, Len(batch) - 1)

\* the keys of the Planes that took a sample from the batch's last line
AdmittedLast(d, batch, minelArg) ==
    LET before == ApplyLines(d, Front(batch), minelArg).val
        after == ApplyLines(d, batch, minelArg).val
    IN {k \in DOMAIN after :
           IF k \in DOMAIN before
           THEN Len(after[k].epc) > Len(before[k].epc)
           ELSE TRUE}

\* the batches of records from either side of midnight
DayBatches == Batches(DayLines) \ {<<>>}

\* C21: with time_alive = 15, a Plane that appended a sample from the last
\* record of a batch is in P when that call of addPlanes returns, also when
\* the sample's epoch was corrected by +86000.
C21_LastRecordSurvives ==
    time_alive = 15 =>
        \A batch \in DayBatches :
            AdmittedLast(P, batch, minel)
                \subseteq DOMAIN addPlanes(batch, P, minel, time_alive).val

\* a call deleted every Plane, the one of its last record included: every
\* record of DayLines is above minel = 0, so that Plane had just stored the
\* record's sample
C21_AdmittedThenEvicted ==
    /\ time_alive = 15
    /\ minel = 0
    /\ keys # {}
    /\ DOMAIN P = {}

----------------------------------------------------------------------------
(* What makes the Supervisor reconnect *)

\* worker i has put 'CONN ERROR' and left its loop
Reported(i) ==
    IF i \in DOMAIN workers THEN workers[i].pc = "done" ELSE FALSE

\* C22: the Supervisor terminates and restarts the worker only after that
\* worker has reported a failure: no payload from the server makes it
\* reconnect while the worker runs.
C22_ReconnectOnlyAfterReport ==
    [][procWorker' # procWorker => Reported(procWorker)]_vars

\* the first worker was terminated by a reconnect: it never reported a
\* failure, and a second worker runs in its place
C22_HealthyWorkerKilled ==
    /\ procWorker >= 2
    /\ workers[1].pc = "terminated"
    /\ workers[1].connected

----------------------------------------------------------------------------
(* What stops the replay *)

\* C23: in replay updateData stops the animation only when dataFakeRead has
\* reached the end of the recording: a call that returns no plane lines
\* while unread lines remain does not stop it, and stopping starts no
\* worker and opens no queue.
C23_StopsOnlyAtEnd ==
    [][(ReplayStep /\ anim' = "stopped") =>
          /\ pos' = Len(datafile)
          /\ UNCHANGED <<queues, workers, planeQueue, procWorker>>]_vars

\* the animation stands still with lines of the recording unread
C23_StoppedEarly ==
    /\ sup = "replay"
    /\ anim = "stopped"
    /\ pos < Len(datafile)

----------------------------------------------------------------------------
(* Reading a recording chunk by chunk *)

\* the groups of the calls dataFakeRead(f, p, n), each from the offset the
\* one before returned, up to the first call that returns two empty groups;
\* mono tells that no call returned an offset below the one it was given
RECURSIVE ReadUntilEmpty(_, _, _)
ReadUntilEmpty(f, p, n) ==
    LET r == dataFakeRead(f, p, n) IN
    IF r.plines = <<>> /\ r.tlines = <<>>
    THEN [plines |-> <<>>, tlines |-> <<>>, mono |-> r.pos >= p]
    ELSE LET rest == ReadUntilEmpty(f, r.pos, n) IN
         [plines |-> r.plines \o rest.plines,
          tlines |-> r.tlines \o rest.tlines,
          mono |-> r.pos >= p /\ rest.mono]

\* C24: dataFakeRead called from offset 0 and then from each returned offset,
\* until it returns an empty result, yields plane groups that concatenate
\* to the 13-token lines of the recording in file order and telescope
\* groups that concatenate to its 6-token lines, and the offset never
\* decreases.
C24_ChunksCoverRecording ==
    LET all == ReadUntilEmpty(datafile, 0, N_lines) IN
    /\ all.plines = SelectSeq(datafile, IsThirteenTokens)
    /\ all.tlines = SelectSeq(datafile, IsSixTokens)
    /\ all.mono

\* the last call read only lines of other token counts, so it returned two
\* empty groups, and a position line of the recording lies behind it
C24_EmptyBeforeEnd ==
    /\ sup = "replay"
    /\ i_read > 0
    /\ \A j \in pos - i_read + 1..pos :
          ~IsThirteenTokens(datafile[j]) /\ ~IsSixTokens(datafile[j])
    /\ \E j \in pos + 1..Len(datafile) : IsThirteenTokens(datafile[j])

----------------------------------------------------------------------------
(* The latest sample of a Plane *)

\* the fields formattedOutput and animate read with [-1]
LatestRead == {"az", "el", "lon", "lat", "alt", "ran"}

\* C25: every Plane of P holds at least one sample: each of its eight sample
\* sequences is non-empty, so plane.az[-1], plane.el[-1], plane.lon[-1],
\* plane.lat[-1], plane.alt[-1] and plane.ran[-1] are defined.
C25_EveryPlaneHasASample ==
    \A k \in DOMAIN P : \A f \in SampleFields \cup LatestRead : Len(P[k][f]) >= 1

\* a Plane that took one sample was offered a record behind a gap: the epoch
\* appended for it was deleted again and the Plane kept its one sample
C25_Witness ==
    \E k \in DOMAIN P :
        /\ P[k].gaps = 1
        /\ \A f \in SampleFields : Len(P[k][f]) = 1

====
